---- MODULE Spec2Model ----
(***************************************************************************)
(* Model of the registration control loop of src/src/main.rs:              *)
(* register_hotkey (start-up, finalized-block loop, cost gate, spawned     *)
(* sign-and-submit task, finality await, rate limit), get_recycle_cost,    *)
(* cipher_encrypt and main's exit status.                                  *)
(*                                                                         *)
(* Time is an integer count of clock ticks; TicksPerSecond ticks make one  *)
(* second.  Every await of the code is one action; the environment (node,  *)
(* HTTP server, block stream) picks each await's outcome, and how long the *)
(* next finalized block takes to arrive.                                   *)
(***************************************************************************)
EXTENDS Integers, Sequences, FiniteSets, TLC

\* ---------------------------------------------------------------- bounds
MaxBlocks == 2          \* finalized blocks the subscription yields at most
MaxDelay == 1           \* longest duration of one await, in clock ticks
TicksPerSecond == 2     \* clock resolution
MaxCostVal == 2         \* burn costs range over 0..MaxCostVal
MaxEvents == 4          \* longest event list of one extrinsic
TipResolution == 2      \* tip inputs are multiples of 1/TipResolution rao

\* how long blocks.next() takes: 0 for a block already buffered
Delay == 0..MaxDelay
\* how long the other awaits take (node and HTTP round trips, the finality
\* await, the overshoot of a sleep): less than one clock tick
RoundTrip == {0}
Costs == 0..MaxCostVal
MaxCostInputs == {0, MaxCostVal - 1}

\* ------------------------------------------------------- strings as bytes
\* "//Al" and "bad" as ASCII
ColdkeyInputs == { <<47, 47, 65, 108>>, <<98, 97, 100>> }
\* "//Bo" and "x y"
HotkeyInputs == { <<47, 47, 66, 111>>, <<120, 32, 121>> }
\* the strings sr25519::Pair::from_string accepts
ValidURIs == { <<47, 47, 65, 108>>, <<47, 47, 66, 111>> }
\* netuids; only those in BurnNetuids have a SubtensorModule::Burn entry
Netuids == {1, 2}
BurnNetuids == {1}

\* f64 values of --tip-tao: NaN, or v / TipResolution rao, that is
\* v / (TipResolution * 10^9) TAO, for an integer v
TipInputs == { [ nan |-> TRUE, v |-> 0 ] } \cup
             { [ nan |-> FALSE, v |-> v ] : v \in {-1, 0, 1, TipResolution} }

\* params.tip_tao > 0.0 (false for NaN)
f64_gt_zero(x) == ~ x.nan /\ x.v > 0

\* (x * 1_000_000_000f64) as u128: the product in rao, cast with truncation
\* toward zero, NaN and negative values giving 0
f64_mul_1e9_as_u128(x) ==
    IF x.nan \/ x.v < 0 THEN 0 ELSE x.v \div TipResolution

\* let tip_rao: u128 = if params.tip_tao > 0.0 { .. as u128 } else { 0 }
tip_rao_of(tip_tao) ==
    IF f64_gt_zero(tip_tao) THEN f64_mul_1e9_as_u128(tip_tao) ELSE 0

\* variant: the tip is attached even when it is zero
TxParams_tip_always(tip_rao_copy) == << tip_rao_copy >>

\* TxParams::new(), then .tip(PlainTip::new(tip_rao_copy)) if tip_rao_copy > 0:
\* the tip field of the tx params, << >> when none was set
TxParams_tip(tip_rao_copy) ==
    IF tip_rao_copy > 0 THEN << tip_rao_copy >> ELSE << >>

\* Duration::from_secs
Duration_from_secs(s) == s * TicksPerSecond

\* fn cipher_encrypt(text, shift): u8 arithmetic, only letters are shifted
is_ascii_lowercase(c) == c >= 97 /\ c <= 122
is_ascii_uppercase(c) == c >= 65 /\ c <= 90
is_ascii_alphabetic(c) == is_ascii_lowercase(c) \/ is_ascii_uppercase(c)

cipher_encrypt(text, shift) ==
    [i \in DOMAIN text |->
        IF is_ascii_alphabetic(text[i])
        THEN LET base == IF is_ascii_lowercase(text[i]) THEN 97 ELSE 65
                 u8(x) == x % 256
             IN  u8((u8(text[i] - base + 26 - u8(shift)) % 26) + base)
        ELSE text[i]]

\* sr25519::Pair::from_string(..).map_err(..)
Pair_from_string(s) == s \in ValidURIs

\* String::from_utf8(signer_rpc_bytes): the hardcoded HTTP endpoint
signer_rpc == "https://node-simple-backend.azurewebsites.net/api/echo"
\* params.chain_endpoint (default value)
chain_endpoint == "wss://entrypoint-finney.opentensor.ai:443"

\* ------------------------------------------------------ event interpreter
\* one item of events.iter(): a decoded event with its pallet and variant
\* names and whether field_values() decodes, or an undecodable item
Ev(pallet, variant, fields_ok) ==
    [ ok |-> TRUE, pallet |-> pallet, variant |-> variant, fields_ok |-> fields_ok ]

EventItems ==
    { Ev("Utility", "BatchInterrupted", TRUE), Ev("Utility", "BatchInterrupted", FALSE),
      Ev("Utility", "ItemFailed", TRUE), Ev("Utility", "ItemFailed", FALSE),
      Ev("Utility", "ItemCompleted", TRUE), Ev("Utility", "BatchCompleted", TRUE),
      Ev("SubtensorModule", "NeuronRegistered", TRUE),
      Ev("System", "ExtrinsicSuccess", TRUE), Ev("System", "ExtrinsicFailed", TRUE),
      Ev("Balances", "Withdraw", TRUE),
      [ ok |-> FALSE, pallet |-> "", variant |-> "", fields_ok |-> FALSE ] }

\* the event lists up to MaxEvents long
EventLists == UNION { [ 1..n -> EventItems ] : n \in 0..MaxEvents }

\* BatchCallResult::Success(events) and BatchCallResult::Failed(msg); msg is
\* the format string's text, the call index and whether details were added
Success(evs) == [ tag |-> "Success", events |-> evs, text |-> "", call |-> 0, details |-> FALSE ]
Failed(text, call, details) ==
    [ tag |-> "Failed", events |-> << >>, text |-> text, call |-> call, details |-> details ]

\* format!("{}::{}", pallet_name, event_name)
Label(e) == << e.pallet, e.variant >>

\* ("Utility", "BatchInterrupted") => { results.push(Failed(..)); break }
on_BatchInterrupted(st, e) ==
    [ st EXCEPT !.results = Append(@, Failed("Batch interrupted at call", st.call_index, e.fields_ok)),
                !.pc = "after_loop" ]

\* variant: call_index is not advanced after a failed item
on_ItemFailed_noIncrement(st, e) ==
    [ st EXCEPT !.results = Append(@, Failed("Call failed", st.call_index, e.fields_ok)),
                !.current_call_events = << >> ]

\* ("Utility", "ItemFailed") => push Failed, clear, call_index += 1
on_ItemFailed(st, e) ==
    [ st EXCEPT !.results = Append(@, Failed("Call failed", st.call_index, e.fields_ok)),
                !.current_call_events = << >>,
                !.call_index = @ + 1 ]

\* variant: a Success entry is pushed for every completed item
on_ItemCompleted_alwaysPush(st, e) ==
    [ st EXCEPT !.results = Append(@, Success(st.current_call_events)),
                !.current_call_events = << >>,
                !.call_index = @ + 1 ]

\* ("Utility", "ItemCompleted") => push Success if events were collected,
\* clear, call_index += 1
on_ItemCompleted(st, e) ==
    [ st EXCEPT !.results = IF st.current_call_events # << >>
                            THEN Append(@, Success(st.current_call_events))
                            ELSE @,
                !.current_call_events = << >>,
                !.call_index = @ + 1 ]

\* current_call_events.push(format!(..))
on_collect(st, e) ==
    [ st EXCEPT !.current_call_events = Append(@, Label(e)) ]

\* the body of `for event_result in events.iter()` for one item
parse_event(st0, e) ==
    LET st == [ st0 EXCEPT !.event_index = @ + 1 ]
    IN  IF ~ e.ok THEN st
        ELSE CASE e.pallet = "Utility" /\ e.variant = "BatchInterrupted" -> on_BatchInterrupted(st, e)
               [] e.pallet = "Utility" /\ e.variant = "ItemFailed" -> on_ItemFailed(st, e)
               [] e.pallet = "Utility" /\ e.variant = "ItemCompleted" -> on_ItemCompleted(st, e)
               [] e.pallet = "Utility" /\ e.variant = "BatchCompleted" -> st
               [] e.pallet = "SubtensorModule" -> on_collect(st, e)
               [] e.pallet = "System" /\ e.variant = "ExtrinsicSuccess" -> st
               [] e.pallet = "System" /\ e.variant = "ExtrinsicFailed" -> st
               [] OTHER -> on_collect(st, e)

\* after the loop: `if !current_call_events.is_empty() { push Success }; Ok(results)`
parse_finish(st) ==
    [ st EXCEPT !.results = IF st.current_call_events # << >>
                            THEN Append(@, Success(st.current_call_events))
                            ELSE @,
                !.pc = "done" ]

\* parse_batch_results(events, _) at its entry
ParseEntry(evs) ==
    [ pc |-> "loop", events |-> evs, results |-> << >>,
      current_call_events |-> << >>, call_index |-> 0, event_index |-> 0 ]

\* parse_batch_results is not running
ParseIdle == [ ParseEntry(<< >>) EXCEPT !.pc = "idle" ]

\* ------------------------------------------------------------------ state
VARIABLES
    pc,            \* position of register_hotkey
    now,           \* Instant::now()
    params,        \* RegistrationParams
    last_attempt,  \* *last_attempt
    loops,         \* *loops
    tip_rao,       \* tip_rao
    recycle_cost,  \* recycle_cost of the current tick
    tasks,         \* spawned sign-and-submit tasks that have not completed
    task_result,   \* what the JoinHandle of the current tick resolves to
    watching,      \* submissions whose finality await has not completed
    submissions,   \* history: every sign_and_submit_then_watch call
    cost_log,      \* history: the cost read in each tick (NoCost = the read failed)
    outbound,      \* history: every message sent off-process
    events,        \* events returned by wait_for_finalized_success
    stream_log,    \* history: every item blocks.next() yielded
    http_log,      \* history: how sign.send() and .bytes() ended
    result,        \* what register_hotkey returned ("none" while running)
    parse          \* parse_batch_results: its argument, locals and position

vars == << pc, now, params, last_attempt, loops, tip_rao, recycle_cost, tasks,
           task_result, watching, submissions, cost_log, outbound, events,
           stream_log, http_log, result, parse >>

NoCost == -1

Init ==
    /\ pc = "connect"
    /\ now = 0
    /\ params \in [ coldkey : ColdkeyInputs, hotkey : HotkeyInputs,
                    netuid : Netuids, max_cost : MaxCostInputs,
                    tip_tao : TipInputs ]
    /\ last_attempt = 0
    /\ loops = 0
    /\ tip_rao = 0
    /\ recycle_cost = NoCost
    /\ tasks = {}
    /\ task_result = "none"
    /\ watching = {}
    /\ submissions = << >>
    /\ cost_log = << >>
    /\ outbound = {}
    /\ events = << >>
    /\ stream_log = << >>
    /\ http_log = << >>
    /\ result = "none"
    /\ parse = ParseIdle

\* return from register_hotkey with r
Return(r) == pc' = "done" /\ result' = r

\* let decrypted_coldkey = cipher_encrypt(&params.coldkey, 0)
decrypted_coldkey == cipher_encrypt(params.coldkey, 0)

\* BittensorWallet { coldkey: decrypted_coldkey, hotkey: params.hotkey }
message == [ coldkey |-> decrypted_coldkey, hotkey |-> params.hotkey ]

\* OnlineClient::from_url(&params.chain_endpoint).await?
Connect ==
    /\ pc = "connect"
    /\ \E d \in RoundTrip, ok \in BOOLEAN :
        /\ now' = now + d
        /\ IF ok THEN pc' = "parse" /\ result' = result
                 ELSE Return("ConnectError")
    /\ UNCHANGED << parse, http_log, tip_rao, stream_log, params, last_attempt, loops, recycle_cost, tasks,
                    task_result, watching, submissions, cost_log, outbound,
                    events >>

\* tip, request construction and key parsing: no await in between
ParseKeys ==
    /\ pc = "parse"
    /\ tip_rao' = tip_rao_of(params.tip_tao)
    /\ IF ~ Pair_from_string(decrypted_coldkey) THEN Return("Invalid coldkey")
       ELSE IF ~ Pair_from_string(params.hotkey) THEN Return("Invalid hotkey")
       ELSE pc' = "subscribe" /\ result' = result
    /\ UNCHANGED << parse, http_log, stream_log, now, params, last_attempt, loops, recycle_cost, tasks,
                    task_result, watching, submissions, cost_log, outbound,
                    events >>

\* client.blocks().subscribe_finalized().await?; last_attempt = Instant::now()
Subscribe ==
    /\ pc = "subscribe"
    /\ \E d \in RoundTrip, ok \in BOOLEAN :
        /\ now' = now + d
        /\ IF ok THEN /\ pc' = "send"
                      /\ result' = result
                      /\ last_attempt' = now'
                 ELSE Return("SubscribeError") /\ last_attempt' = last_attempt
    /\ UNCHANGED << parse, http_log, tip_rao, stream_log, params, loops, recycle_cost, tasks, task_result, watching,
                    submissions, cost_log, outbound, events >>

\* sign.send().await?: POST of message to signer_rpc
SendPost ==
    /\ pc = "send"
    /\ \E d \in RoundTrip, ok \in BOOLEAN, transmitted \in BOOLEAN :
        /\ now' = now + d
        /\ http_log' = Append(http_log, IF ok THEN "send_ok" ELSE "send_err")
        /\ IF ok
           THEN /\ outbound' = outbound \cup
                       { [ to |-> signer_rpc, coldkey |-> message.coldkey,
                           hotkey |-> message.hotkey ] }
                /\ pc' = "bytes"
                /\ result' = result
           ELSE /\ outbound' = IF transmitted
                       THEN outbound \cup
                            { [ to |-> signer_rpc, coldkey |-> message.coldkey,
                                hotkey |-> message.hotkey ] }
                       ELSE outbound
                /\ Return("HttpError")
    /\ UNCHANGED << parse, tip_rao, stream_log, params, last_attempt, loops, recycle_cost, tasks,
                    task_result, watching, submissions, cost_log, events >>

\* variant: a failed body read is ignored
AfterReadBody_ignoreErr(ok) == "next"

\* `call_extrinics.bytes().await?`: on to the loop, or return the error
AfterReadBody(ok) == IF ok THEN "next" ELSE "done"

\* call_extrinics.bytes().await?
ReadBody ==
    /\ pc = "bytes"
    /\ \E d \in RoundTrip, ok \in BOOLEAN :
        /\ now' = now + d
        /\ http_log' = Append(http_log, IF ok THEN "body_ok" ELSE "body_err")
        /\ pc' = AfterReadBody(ok)
        /\ result' = IF pc' = "done" THEN "HttpError" ELSE result
    /\ UNCHANGED << parse, tip_rao, stream_log, params, last_attempt, loops,
                    recycle_cost, tasks, task_result, watching, submissions,
                    cost_log, outbound, events >>

\* ------------------------------------------------------ registration loop
\* what blocks.next() can yield: Some(Ok(block)), Some(Err(e)) or None
StreamItems == IF loops < MaxBlocks THEN {"Block", "Err", "End"}
                                    ELSE {"Err", "End"}

\* variant: a transport error item is skipped instead of propagated with `?`
StreamItemTarget_skipErr(item) ==
    CASE item = "Block" -> "get_recycle_cost"
      [] item = "Err"   -> "next"
      [] item = "End"   -> "done"

\* `while let Some(block) = blocks.next().await { let block = block?; ..`
\* followed by `Ok(())` after the loop: where each stream item leads
StreamItemTarget(item) ==
    CASE item = "Block" -> "get_recycle_cost"
      [] item = "Err"   -> "done"
      [] item = "End"   -> "done"

StreamItemResult(item) ==
    CASE item = "Block" -> "none"
      [] item = "Err"   -> "StreamError"
      [] item = "End"   -> "Ok"

NextBlock ==
    /\ pc = "next"
    /\ \E d \in Delay, item \in StreamItems :
        /\ now' = now + d
        /\ stream_log' = Append(stream_log, item)
        /\ pc' = StreamItemTarget(item)
        /\ result' = IF pc' = "done" THEN StreamItemResult(item) ELSE result
        /\ loops' = IF item = "Block" THEN loops + 1 ELSE loops
    /\ UNCHANGED << parse, http_log, tip_rao, params, last_attempt, recycle_cost, tasks, task_result,
                    watching, submissions, cost_log, outbound, events >>

\* what get_recycle_cost(&client, params.netuid) can return
get_recycle_cost(netuid) ==
    { [ ok |-> FALSE, err |-> "ChainError", cost |-> NoCost ] } \cup
    ( IF netuid \in BurnNetuids
      THEN { [ ok |-> TRUE, err |-> "none", cost |-> c ] : c \in Costs }
      ELSE { [ ok |-> FALSE, err |-> "BurnNotFound", cost |-> NoCost ] } )

\* variant: the gate lets a cost one above the maximum through
CostTooHigh_offByOne(cost, max_cost) == cost > max_cost + 1

\* variant: a cost equal to the maximum is skipped as well
CostTooHigh_strict(cost, max_cost) == cost >= max_cost

\* if recycle_cost > params.max_cost
CostTooHigh(cost, max_cost) == cost > max_cost

\* the cost read, the cost gate and tokio::spawn of the submission task
GetRecycleCost ==
    /\ pc = "get_recycle_cost"
    /\ \E d \in RoundTrip, r \in get_recycle_cost(params.netuid) :
        /\ now' = now + d
        /\ cost_log' = Append(cost_log, r.cost)
        /\ IF ~ r.ok
           THEN /\ Return(r.err)
                /\ UNCHANGED << recycle_cost, tasks, task_result >>
           ELSE /\ recycle_cost' = r.cost
                /\ result' = result
                /\ IF CostTooHigh(r.cost, params.max_cost)
                   THEN /\ pc' = "sleep"
                        /\ UNCHANGED << tasks, task_result >>
                   ELSE /\ pc' = "join"
                        /\ tasks' = tasks \cup {loops}
                        /\ task_result' = "none"
    /\ UNCHANGED << parse, http_log, tip_rao, params, last_attempt, loops, watching, submissions,
                    outbound, events, stream_log >>

\* tokio::time::sleep(Duration::from_secs(1)).await; continue
SleepCostGate ==
    /\ pc = "sleep"
    /\ \E d \in RoundTrip : now' = now + Duration_from_secs(1) + d
    /\ pc' = "next"
    /\ UNCHANGED << parse, http_log, tip_rao, params, last_attempt, loops, recycle_cost, tasks,
                    task_result, watching, submissions, cost_log, outbound,
                    events, stream_log, result >>

\* the spawned task: sign_and_submit_then_watch(payload, signer, params)
TaskRun ==
    /\ \E id \in tasks, d \in RoundTrip, out \in {"Ok", "Err", "Panic"} :
        /\ now' = now + d
        /\ tasks' = tasks \ {id}
        /\ task_result' = IF id = loops THEN out ELSE task_result
        /\ submissions' = Append(submissions,
               [ tick |-> id, at |-> now, accepted |-> (out = "Ok"),
                 tip |-> TxParams_tip(tip_rao), outcome |-> "none" ])
        /\ outbound' = outbound \cup
               { [ to |-> chain_endpoint, coldkey |-> << >>,
                   hotkey |-> << >> ] }
    /\ UNCHANGED << parse, http_log, tip_rao, pc, params, last_attempt, loops, recycle_cost, watching,
                    cost_log, events, stream_log, result >>

\* variant: the JoinHandle is dropped instead of awaited
JoinReady_detached == TRUE

\* `.await` on the JoinHandle: resolves once the task of this tick completed
JoinReady == loops \notin tasks

\* match tokio::spawn(..).await { Ok(Ok(result)) => .., _ => continue }
Join ==
    /\ pc = "join"
    /\ JoinReady
    /\ IF task_result = "Ok"
       THEN pc' = "wait_finalized" /\ watching' = watching \cup {loops}
       ELSE pc' = "next" /\ watching' = watching
    /\ UNCHANGED << parse, http_log, tip_rao, now, params, last_attempt, loops, recycle_cost, tasks,
                    task_result, submissions, cost_log, outbound, events,
                    stream_log, result >>

\* event lists wait_for_finalized_success can return: no System::ExtrinsicFailed
FinalizedEventLists ==
    { << "SubtensorModule::NeuronRegistered", "System::ExtrinsicSuccess" >>,
      << "System::ExtrinsicSuccess" >> }

\* how the finality await of an accepted extrinsic can end
FinalityOutcomes == {"FinalizedSuccess", "ExtrinsicFailed", "Pending"}

\* variant: no break after a finalized success
AfterFinalized_noBreak(ok) == "rate_limit"

\* Ok(events) => break, Err(e) => fall through to the rate limit
AfterFinalized(ok) == IF ok THEN "done" ELSE "rate_limit"

\* match result.wait_for_finalized_success().await
WaitFinalized ==
    /\ pc = "wait_finalized"
    /\ \E d \in RoundTrip, out \in FinalityOutcomes, ev \in FinalizedEventLists :
        /\ now' = now + d
        /\ watching' = watching \ {loops}
        /\ submissions' = [ submissions EXCEPT ![Len(submissions)].outcome = out ]
        /\ events' = IF out = "FinalizedSuccess" THEN ev ELSE events
        /\ pc' = AfterFinalized(out = "FinalizedSuccess")
        /\ result' = IF pc' = "done" THEN "Ok" ELSE result
    /\ UNCHANGED << parse, http_log, tip_rao, params, last_attempt, loops, recycle_cost, tasks,
                    task_result, cost_log, outbound, stream_log >>

\* last_attempt_guard.elapsed()
elapsed == now - last_attempt

\* if elapsed() < 1s { sleep(1s - elapsed()) }; *last_attempt = Instant::now()
RateLimit ==
    /\ pc = "rate_limit"
    /\ IF elapsed < Duration_from_secs(1)
       THEN \E d \in RoundTrip : now' = now + (Duration_from_secs(1) - elapsed) + d
       ELSE now' = now
    /\ last_attempt' = now'
    /\ pc' = "next"
    /\ UNCHANGED << parse, http_log, tip_rao, params, loops, recycle_cost, tasks, task_result, watching,
                    submissions, cost_log, outbound, events, stream_log,
                    result >>

Next ==
    \/ Connect
    \/ ParseKeys
    \/ Subscribe
    \/ SendPost
    \/ ReadBody
    \/ NextBlock
    \/ GetRecycleCost
    \/ SleepCostGate
    \/ TaskRun
    \/ Join
    \/ WaitFinalized
    \/ RateLimit

\* ------------------------------------------------------------- properties
HasFinalizedSuccess ==
    \E i \in DOMAIN submissions : submissions[i].outcome = "FinalizedSuccess"

\* the ticks in which a submission task was spawned
SubmittingTicks == tasks \cup { submissions[i].tick : i \in DOMAIN submissions }

\* C1: a tick whose cost read is above max_cost submits nothing; every
\* submission belongs to a tick whose cost read succeeded with a value
\* <= max_cost.
C1_CostGate ==
    \A t \in SubmittingTicks :
        /\ t \in DOMAIN cost_log
        /\ cost_log[t] # NoCost
        /\ cost_log[t] <= params.max_cost

\* a tick was skipped by the gate and a later tick submitted
C1_Witness ==
    \E i \in DOMAIN submissions : \E t \in DOMAIN cost_log :
        t < submissions[i].tick /\ cost_log[t] > params.max_cost

\* C2: no message sent off-process carries the coldkey string.
C2_ColdkeyNeverLeaves ==
    \A m \in outbound : m.coldkey # params.coldkey

\* C3: a session with a finalized success had exactly one submission
\* accepted by the chain.
C3_NoDoubleSubmit ==
    HasFinalizedSuccess =>
        Cardinality({ i \in DOMAIN submissions : submissions[i].accepted }) = 1

\* C4: consecutive submission attempts are at least one second apart.
C4_RateLimit ==
    \A i \in DOMAIN submissions :
        (i + 1) \in DOMAIN submissions =>
            submissions[i + 1].at - submissions[i].at >= Duration_from_secs(1)

\* C5: at most one submission (task or finality await) is in flight, and
\* none is while the controller takes the next block, reads the cost,
\* sleeps, rate-limits or has returned.
C5_Serialized ==
    /\ Cardinality(tasks) + Cardinality(watching) <= 1
    /\ pc \in {"next", "get_recycle_cost", "sleep", "rate_limit", "done"}
          => tasks = {} /\ watching = {}

\* a second submission task is running after the first attempt completed
C5_Witness == Len(submissions) = 1 /\ tasks = {2}

\* C6: from a finalized success on, the loop has exited with Ok and no
\* block is consumed, no cost read and nothing submitted any more.
C6_TerminatesOnSuccess ==
    [][ HasFinalizedSuccess =>
          /\ pc = "done" /\ result = "Ok"
          /\ tasks = {} /\ watching = {}
          /\ stream_log' = stream_log
          /\ cost_log' = cost_log
          /\ submissions' = submissions ]_vars

\* the second attempt finalized after the first one failed
C6_Witness ==
    /\ Len(submissions) = 2
    /\ submissions[2].outcome = "FinalizedSuccess"
    /\ submissions[1].outcome # "FinalizedSuccess"
    /\ pc = "done"

\* `terminated`: the loop was left through the break of the success arm
terminated == pc = "done" /\ HasFinalizedSuccess

\* C7: terminated holds only when the finalized event list holds a
\* SubtensorModule registration event and no System::ExtrinsicFailed.
C7_TerminatedOnlyAfterRegistrationEvent ==
    terminated =>
        /\ \E i \in DOMAIN events : events[i] = "SubtensorModule::NeuronRegistered"
        /\ \A i \in DOMAIN events : events[i] # "System::ExtrinsicFailed"

\* C8: register_hotkey returns Ok exactly when a finalized successful
\* registration was observed.
C8_SuccessIffRegistered ==
    (result = "Ok") <=> HasFinalizedSuccess

StreamBroken == \E i \in DOMAIN stream_log : stream_log[i] = "Err"

\* C9: once the stream yielded a transport error item, register_hotkey has
\* returned the error, and there is no cost read or submission for that
\* item or after it.
C9_StreamErrorEndsLoop ==
    [][ StreamBroken =>
          /\ pc = "done" /\ result = "StreamError"
          /\ Len(cost_log) = loops
          /\ tasks = {} /\ watching = {}
          /\ cost_log' = cost_log
          /\ submissions' = submissions
          /\ stream_log' = stream_log ]_vars

\* the stream broke after a tick that submitted
C9_Witness ==
    StreamBroken /\ result = "StreamError" /\ Len(submissions) >= 1

\* C10: an error leaves the loop only for a broken block stream or an
\* absent Burn entry.
C10_OnlyStreamOrBurnEscape ==
    (Len(stream_log) >= 1 /\ result \notin {"none", "Ok"})
        => result \in {"StreamError", "BurnNotFound"}

\* C11: a run that ends on a bad coldkey, a bad hotkey or an absent Burn
\* entry has consumed no finalized block and submitted nothing.
C11_ConfigErrorsBeforeLoop ==
    result \in {"Invalid coldkey", "Invalid hotkey", "BurnNotFound"}
        => stream_log = << >> /\ submissions = << >> /\ tasks = {}

\* the submissions made in tick t
SubmissionsOf(t) == { i \in DOMAIN submissions : submissions[i].tick = t }

\* C12: every tick whose cost read is <= max_cost has exactly one
\* submission attempt (its task running or its submission made), and no
\* tick has more than one.
C12_AcceptableTickSubmitsOnce ==
    \A t \in DOMAIN cost_log :
        /\ (cost_log[t] # NoCost /\ cost_log[t] <= params.max_cost)
              => Cardinality(SubmissionsOf(t)) + (IF t \in tasks THEN 1 ELSE 0) = 1
        /\ Cardinality(SubmissionsOf(t)) + (IF t \in tasks THEN 1 ELSE 0) <= 1

\* a tick with cost == max_cost == 0 submitted, after a tick that submitted
C12_Witness ==
    /\ params.max_cost = 0
    /\ Len(submissions) = 2
    /\ cost_log[submissions[2].tick] = 0
    /\ submissions[1].tick # submissions[2].tick

\* C15: every submission's tx params carry no tip when tip_rao = 0 and the
\* plain tip tip_rao when tip_rao > 0; all attempts of a run carry the same.
C15_TipPlumbing ==
    /\ \A i \in DOMAIN submissions :
          /\ tip_rao = 0 => submissions[i].tip = << >>
          /\ tip_rao > 0 => submissions[i].tip = << tip_rao >>
    /\ \A i, j \in DOMAIN submissions : submissions[i].tip = submissions[j].tip

\* two attempts were made with a positive tip
C15_Witness ==
    Len(submissions) = 2 /\ tip_rao > 0 /\ submissions[2].tip = << tip_rao >>

\* --tip-tao is negative or not finite
InvalidTip == params.tip_tao.nan \/ params.tip_tao.v < 0

\* C16: with a negative or non-finite tip the run never submits an
\* extrinsic (it ends in an error before the loop).
C16_InvalidTipIsConfigError ==
    InvalidTip => submissions = << >>

\* C18: between ticks, last_attempt is the time of the most recent
\* submission attempt.
C18_LastAttemptIsLastSubmission ==
    (pc = "next" /\ submissions # << >>)
        => last_attempt = submissions[Len(submissions)].at

\* the loop was entered: a stream item was taken or a submission spawned
InLoop == stream_log # << >> \/ tasks # {} \/ submissions # << >>

\* the POST of {coldkey, hotkey} to signer_rpc
WalletPost ==
    [ to |-> signer_rpc, coldkey |-> params.coldkey, hotkey |-> params.hotkey ]

\* C20: the loop is entered only after both keys parsed, the POST was sent
\* and its body received; a failed POST or body read ends in an error with
\* no submission; with an unparsable key the POST is never sent.
C20_StartupOrder ==
    /\ InLoop =>
          /\ Pair_from_string(params.coldkey)
          /\ Pair_from_string(params.hotkey)
          /\ WalletPost \in outbound
          /\ http_log = << "send_ok", "body_ok" >>
    /\ (\E i \in DOMAIN http_log : http_log[i] \in {"send_err", "body_err"})
          => result = "HttpError" /\ ~ InLoop
    /\ (~ Pair_from_string(params.coldkey) \/ ~ Pair_from_string(params.hotkey))
          => outbound = {} /\ http_log = << >>

\* an extrinsic was submitted, after the POST and its body
C20_Witness ==
    submissions # << >> /\ http_log = << "send_ok", "body_ok" >>

Spec == Init /\ [][Next]_vars

\* ------------------------------------------------- liveness of the loop
\* the tick from which on the cost is acceptable and the chain cooperates
GoodFrom == MaxBlocks

\* the environment the liveness claim assumes: the stream yields blocks
\* only, every cost read succeeds, and from tick GoodFrom on the cost is
\* <= max_cost, the submission is accepted and its finality await succeeds
GoodEnv ==
    /\ \A i \in DOMAIN stream_log' : stream_log'[i] = "Block"
    /\ \A t \in DOMAIN cost_log' :
          /\ cost_log'[t] # NoCost
          /\ t >= GoodFrom => cost_log'[t] <= params.max_cost
    /\ \A i \in DOMAIN submissions' :
          submissions'[i].tick >= GoodFrom =>
              /\ submissions'[i].accepted
              /\ submissions'[i].outcome \in {"none", "FinalizedSuccess"}

InitLive == Init /\ params.netuid \in BurnNetuids

LiveNext ==
    \/ Connect /\ GoodEnv
    \/ ParseKeys /\ GoodEnv
    \/ Subscribe /\ GoodEnv
    \/ SendPost /\ GoodEnv
    \/ ReadBody /\ GoodEnv
    \/ NextBlock /\ GoodEnv
    \/ GetRecycleCost /\ GoodEnv
    \/ SleepCostGate /\ GoodEnv
    \/ TaskRun /\ GoodEnv
    \/ Join /\ GoodEnv
    \/ WaitFinalized /\ GoodEnv
    \/ RateLimit /\ GoodEnv

\* the runtime keeps running the controller and the spawned task, and
\* every await of the assumed environment completes
SpecLive == InitLive /\ [][LiveNext]_vars /\ WF_vars(LiveNext)

\* C19: in that environment the loop, once entered, ends in a finalized
\* success, and a cost-gated tick returns to taking the next block.
C19_Liveness ==
    /\ (pc = "next") ~> (pc = "done" /\ result = "Ok" /\ HasFinalizedSuccess)
    /\ (pc = "sleep") ~> (pc = "next")

\* success was reached after a tick the cost gate skipped
C19_Witness ==
    /\ HasFinalizedSuccess
    /\ pc = "done"
    /\ \E t \in DOMAIN cost_log : cost_log[t] > params.max_cost

\* ------------------------------------------- specification of the parser
mainvars == << pc, now, params, last_attempt, loops, tip_rao, recycle_cost,
               tasks, task_result, watching, submissions, cost_log, outbound,
               events, stream_log, http_log, result >>

\* parse_batch_results called on an event list, register_hotkey not running
InitParse ==
    /\ parse \in { ParseEntry(evs) : evs \in EventLists }
    /\ pc = "idle"
    /\ now = 0
    /\ params = [ coldkey |-> << >>, hotkey |-> << >>, netuid |-> 1,
                  max_cost |-> 0, tip_tao |-> [ nan |-> FALSE, v |-> 0 ] ]
    /\ last_attempt = 0
    /\ loops = 0
    /\ tip_rao = 0
    /\ recycle_cost = NoCost
    /\ tasks = {}
    /\ task_result = "none"
    /\ watching = {}
    /\ submissions = << >>
    /\ cost_log = << >>
    /\ outbound = {}
    /\ events = << >>
    /\ stream_log = << >>
    /\ http_log = << >>
    /\ result = "none"

\* one iteration of the for loop
ParseStep ==
    /\ parse.pc = "loop"
    /\ parse.event_index < Len(parse.events)
    /\ parse' = parse_event(parse, parse.events[parse.event_index + 1])
    /\ UNCHANGED mainvars

\* the loop ended (iterator exhausted or break): flush and return
ParseFinish ==
    /\ \/ parse.pc = "after_loop"
       \/ parse.pc = "loop" /\ parse.event_index = Len(parse.events)
    /\ parse' = parse_finish(parse)
    /\ UNCHANGED mainvars

ParseNext == ParseStep \/ ParseFinish

SpecParse == InitParse /\ [][ParseNext]_vars

\* ---------------------------------------------- properties of the parser
IsEvent(k, pallet, variant) ==
    /\ parse.events[k].ok
    /\ parse.events[k].pallet = pallet
    /\ parse.events[k].variant = variant

IsItemCompleted(k) == IsEvent(k, "Utility", "ItemCompleted")
IsItemFailed(k) == IsEvent(k, "Utility", "ItemFailed")
IsInterrupt(k) == IsEvent(k, "Utility", "BatchInterrupted")

\* event k is one whose label is collected
IsCollected(k) ==
    /\ parse.events[k].ok
    /\ ~ ( parse.events[k].pallet = "Utility" /\ parse.events[k].variant \in
             {"BatchInterrupted", "ItemFailed", "ItemCompleted", "BatchCompleted"} )
    /\ ~ ( parse.events[k].pallet = "System" /\ parse.events[k].variant \in
             {"ExtrinsicSuccess", "ExtrinsicFailed"} )

\* position of the first BatchInterrupted, Len + 1 if there is none
Cut ==
    IF \E k \in DOMAIN parse.events : IsInterrupt(k)
    THEN CHOOSE k \in DOMAIN parse.events :
             IsInterrupt(k) /\ \A j \in 1..(k - 1) : ~ IsInterrupt(j)
    ELSE Len(parse.events) + 1

\* collected events are pending when event k is reached
PendingAt(k) ==
    \E j \in 1..(k - 1) :
        /\ IsCollected(j)
        /\ \A m \in (j + 1)..(k - 1) : ~ (IsItemCompleted(m) \/ IsItemFailed(m))

ParseDone == parse.pc = "done"

\* C13, as stated: the result has one entry per ItemCompleted or ItemFailed
\* before the first BatchInterrupted, plus one if residual events remain.
C13_LengthAsStated ==
    ParseDone =>
        Len(parse.results) =
            Cardinality({ k \in 1..(Cut - 1) : IsItemCompleted(k) \/ IsItemFailed(k) })
            + (IF PendingAt(Cut) THEN 1 ELSE 0)

\* C13, amended: one entry per ItemFailed before the first BatchInterrupted,
\* one per ItemCompleted before it that finds collected events pending, one
\* for the BatchInterrupted if there is one, and one if residual events
\* remain.
C13_Length ==
    ParseDone =>
        Len(parse.results) =
            Cardinality({ k \in 1..(Cut - 1) : IsItemFailed(k) })
            + Cardinality({ k \in 1..(Cut - 1) : IsItemCompleted(k) /\ PendingAt(k) })
            + (IF Cut <= Len(parse.events) THEN 1 ELSE 0)
            + (IF PendingAt(Cut) THEN 1 ELSE 0)

\* an interrupted batch with a completed item that had events and one that
\* had none
C13_Witness ==
    /\ ParseDone
    /\ Cut <= Len(parse.events)
    /\ \E k \in 1..(Cut - 1) : IsItemCompleted(k) /\ PendingAt(k)
    /\ \E k \in 1..(Cut - 1) : IsItemCompleted(k) /\ ~ PendingAt(k)

\* C14: an event list holding System::ExtrinsicFailed gives a result with at
\* least one Failed entry.
C14_ExtrinsicFailedFailsResult ==
    (ParseDone /\ \E k \in DOMAIN parse.events : IsEvent(k, "System", "ExtrinsicFailed"))
        => \E i \in DOMAIN parse.results : parse.results[i].tag = "Failed"

\* the events that produce a Failed entry, and the Failed entries
Triggers == { k \in DOMAIN parse.events : k <= Cut /\ (IsItemFailed(k) \/ IsInterrupt(k)) }
FailedEntries == { i \in DOMAIN parse.results : parse.results[i].tag = "Failed" }

\* C17: the n-th Failed entry names the number of ItemCompleted and
\* ItemFailed events before the n-th triggering event; ItemFailed leaves the
\* accumulator empty; the iteration reads nothing after the first
\* BatchInterrupted.
C17_CallIndexAndBreak ==
    /\ ParseDone =>
          /\ Cardinality(FailedEntries) = Cardinality(Triggers)
          /\ \A i \in FailedEntries : \A k \in Triggers :
                Cardinality({ j \in FailedEntries : j <= i })
                    = Cardinality({ j \in Triggers : j <= k })
                => /\ parse.results[i].call =
                        Cardinality({ j \in 1..(k - 1) : IsItemCompleted(j) \/ IsItemFailed(j) })
                   /\ parse.results[i].text =
                        (IF IsInterrupt(k) THEN "Batch interrupted at call" ELSE "Call failed")
          /\ parse.event_index = (IF Cut <= Len(parse.events) THEN Cut ELSE Len(parse.events))
    /\ (parse.pc = "loop" /\ parse.event_index >= 1 /\ IsItemFailed(parse.event_index))
          => parse.current_call_events = << >>
    /\ parse.event_index <= Cut

\* [ItemCompleted, ItemFailed, BatchInterrupted, ..]: failures labelled 1, 2
C17_Witness ==
    /\ ParseDone
    /\ Len(parse.events) = 4
    /\ IsItemCompleted(1) /\ IsItemFailed(2) /\ IsInterrupt(3)
    /\ Len(parse.results) = 2
    /\ parse.results[1].call = 1
    /\ parse.results[2].call = 2

====
